---- MODULE Spec2Model ----
(***************************************************************************)
(* A model of the two data pipelines of the repository:                    *)
(*   scripts/data_pipeline.py  (family A: Customer, Product, Order)        *)
(*   myapp/data_pipeline.py    (family B: Author, Book, Review)            *)
(*                                                                         *)
(* Text is a sequence of one-character strings, so that strip, lower, the  *)
(* digit filters and the parsers are computed and not assumed.  A CSV file *)
(* is a record [exists, rows]; a table of the store is a set of rows, and  *)
(* the Order table, which has no unique constraint, is a bag of rows.      *)
(***************************************************************************)
EXTENDS Integers, Sequences, FiniteSets, Bags, TLC

VARIABLES
    app,        \* which application is run: "scripts" (family A) or "myapp" (family B)
    raw,        \* scripts/raw/*.csv
    cleaned,    \* scripts/cleaned/*.csv
    formatted,  \* scripts/formatted/*.csv
    store,      \* family A tables: customers, products, orders
    library,    \* family B tables: authors, books, reviews
    last,       \* the last command run and how it ended
    exports,    \* scripts/exports/*.csv and database/*.csv
    procs       \* the commands under way when commands are run step by step

vars == <<app, raw, cleaned, formatted, store, library, last, exports, procs>>

---------------------------------------------------------------------------
(* Bounds of the model.                                                    *)

\* most rows of a formatted customers or products file
MaxRows == 2
\* most rows of a formatted orders file
MaxOrders == 2
\* most rows of a raw file
MaxRawRows == 3

\* rows in a raw orders file
MaxRawOrders == 2

\* rows in a raw products file
MaxRawProducts == 2

---------------------------------------------------------------------------
(* Text.                                                                   *)

\* pandas' missing value (NaN): the value read_csv gives an empty cell
NaN == <<"NaN">>

isna(x) == x = NaN

\* str(x) of a cell: str(nan) is the text nan
str(x) == IF isna(x) THEN <<"n", "a", "n">> ELSE x

IsSpace(c) == c = " "

RECURSIVE lstrip(_)
lstrip(s) == IF s # <<>> /\ IsSpace(Head(s)) THEN lstrip(Tail(s)) ELSE s

RECURSIVE rstrip(_)
rstrip(s) ==
    IF s # <<>> /\ IsSpace(s[Len(s)]) THEN rstrip(SubSeq(s, 1, Len(s) - 1)) ELSE s

\* str.strip()
strip(s) == rstrip(lstrip(s))

Upper ==
    <<"A", "B", "C", "D", "E", "F", "G", "H", "I", "J", "K", "L", "M",
      "N", "O", "P", "Q", "R", "S", "T", "U", "V", "W", "X", "Y", "Z">>

Lowers ==
    <<"a", "b", "c", "d", "e", "f", "g", "h", "i", "j", "k", "l", "m",
      "n", "o", "p", "q", "r", "s", "t", "u", "v", "w", "x", "y", "z">>

LowerChar(c) ==
    IF \E i \in DOMAIN Upper : Upper[i] = c
    THEN Lowers[CHOOSE i \in DOMAIN Upper : Upper[i] = c]
    ELSE c

\* str.lower()
lower(s) == [i \in 1..Len(s) |-> LowerChar(s[i])]

\* read_csv of one text cell: an empty cell and the text nan are missing values
read_cell(t) == IF t = <<>> \/ t = <<"n", "a", "n">> THEN NaN ELSE t

\* to_csv of one cell: a missing value is written as an empty cell
write_cell(x) == IF isna(x) THEN <<>> ELSE x

NoFile == [exists |-> FALSE, rows |-> <<>>]

File(rows) == [exists |-> TRUE, rows |-> rows]

\* the files of up to n rows drawn from a set of rows
FilesOf(rowset, n) == {File(r) : r \in UNION {[1..k -> rowset] : k \in 0..n}}

\* DataFrame.drop_duplicates(subset=..., keep="first"): keys[i] is the value of
\* the subset columns in rows[i]; missing values compare equal to each other
RECURSIVE drop_duplicates(_, _, _)
drop_duplicates(rows, keys, seen) ==
    IF rows = <<>> THEN <<>>
    ELSE IF Head(keys) \in seen
         THEN drop_duplicates(Tail(rows), Tail(keys), seen)
         ELSE <<Head(rows)>> \o
              drop_duplicates(Tail(rows), Tail(keys), seen \cup {Head(keys)})

Range(s) == {s[i] : i \in DOMAIN s}

---------------------------------------------------------------------------
(* Dates: datetime.strptime(s, fmt).date() and date.isoformat().           *)

Digits == <<"0", "1", "2", "3", "4", "5", "6", "7", "8", "9">>

IsDigit(c) == \E d \in 1..10 : Digits[d] = c

DigitVal(c) == (CHOOSE d \in 1..10 : Digits[d] = c) - 1

AllDigits(s) == \A i \in 1..Len(s) : IsDigit(s[i])

RECURSIVE ToNat(_)
ToNat(s) == IF s = <<>> THEN 0 ELSE 10 * ToNat(SubSeq(s, 1, Len(s) - 1)) + DigitVal(s[Len(s)])

\* the parts of s between occurrences of the separator character
RECURSIVE Split(_, _)
Split(s, sep) ==
    IF \A i \in 1..Len(s) : s[i] # sep THEN <<s>>
    ELSE LET k == CHOOSE i \in 1..Len(s) : s[i] = sep /\ \A j \in 1..(i - 1) : s[j] # sep
         IN  <<SubSeq(s, 1, k - 1)>> \o Split(SubSeq(s, k + 1, Len(s)), sep)

IsLeap(y) == (y % 4 = 0 /\ y % 100 # 0) \/ y % 400 = 0

DaysIn(y, m) ==
    CASE m \in {4, 6, 9, 11} -> 30
      [] m = 2 -> IF IsLeap(y) THEN 29 ELSE 28
      [] OTHER -> 31

\* a date value is <<year, month, day>>; <<>> stands for ValueError
NoDate == <<>>

MakeDate(ys, ms, ds) ==
    IF /\ Len(ys) = 4 /\ AllDigits(ys)
       /\ Len(ms) \in {1, 2} /\ AllDigits(ms)
       /\ Len(ds) \in {1, 2} /\ AllDigits(ds)
    THEN LET y == ToNat(ys)
             m == ToNat(ms)
             d == ToNat(ds)
         IN  IF y >= 1 /\ m >= 1 /\ m <= 12 /\ d >= 1 /\ d <= DaysIn(y, m)
             THEN <<y, m, d>>
             ELSE NoDate
    ELSE NoDate

\* strptime with one of the four formats of clean_date, named by the order of
\* its fields and its separator
strptime(s, yearFirst, sep) ==
    LET p == Split(s, sep)
    IN  IF Len(p) # 3 THEN NoDate
        ELSE IF yearFirst THEN MakeDate(p[1], p[2], p[3])
             ELSE MakeDate(p[3], p[2], p[1])

IsoText == <<"2", "0", "2", "4", "-", "0", "1", "-", "0", "5">>

\* the date texts the formatted order files of the model hold, parsed once
ParsedDates ==
    [t \in {IsoText, <<"2", "0", "2", "3", "-", "1", "2", "-", "3", "1">>} |->
        strptime(t, TRUE, "-")]

\* datetime.strptime(t, "%Y-%m-%d").date()
parse_order_date(t) ==
    IF t \in DOMAIN ParsedDates THEN ParsedDates[t] ELSE strptime(t, TRUE, "-")

Pad(n, width) ==
    [i \in 1..width |->
        LET pow == CASE width - i = 0 -> 1 [] width - i = 1 -> 10
                     [] width - i = 2 -> 100 [] OTHER -> 1000
        IN  Digits[((n \div pow) % 10) + 1]]

\* date.isoformat(): YYYY-MM-DD
isoformat(d) == Pad(d[1], 4) \o <<"-">> \o Pad(d[2], 2) \o <<"-">> \o Pad(d[3], 2)

---------------------------------------------------------------------------
(* Family A: the store (core/models.py) and cmd_import.                    *)

\* Customer(full_name, email, phone); email is unique.  A CharField stores
\* str(value), so a missing name or phone is stored as the text nan.
Customer(r) ==
    [full_name |-> str(r.full_name), email |-> r.email, phone |-> str(r.phone)]

\* Product(sku, name, price, is_active); sku is unique; price is in cents
Product(r) ==
    [sku |-> strip(str(r.sku)), name |-> strip(str(r.name)),
     price |-> r.price, is_active |-> r.is_active]

\* Order(customer, product, quantity, order_date, note): the two foreign keys
\* are held as the natural key of the row they point to
Order(c, p, r) ==
    [customer |-> c.email, product |-> p.sku, quantity |-> r.quantity,
     order_date |-> parse_order_date(r.order_date),
     note |-> strip(str(r.note))]

EmptyStore == [customers |-> {}, products |-> {}, orders |-> EmptyBag]

\* pd.read_csv of a formatted file: text cells go through read_cell
read_customers(file) ==
    [i \in DOMAIN file.rows |->
        [full_name |-> read_cell(file.rows[i].full_name),
         email |-> read_cell(file.rows[i].email),
         phone |-> read_cell(file.rows[i].phone)]]

read_products(file) ==
    [i \in DOMAIN file.rows |->
        [sku |-> read_cell(file.rows[i].sku), name |-> read_cell(file.rows[i].name),
         price |-> file.rows[i].price, is_active |-> file.rows[i].is_active]]

read_orders(file) ==
    [i \in DOMAIN file.rows |->
        [customer_email |-> read_cell(file.rows[i].customer_email),
         product_sku |-> read_cell(file.rows[i].product_sku),
         quantity |-> file.rows[i].quantity,
         order_date |-> read_cell(file.rows[i].order_date),
         note |-> read_cell(file.rows[i].note)]]

\* Customer.objects.filter(email__in=...).values_list("email", flat=True)
existing_emails(customers, dfc) ==
    {c.email : c \in {x \in customers : \E i \in DOMAIN dfc : dfc[i].email = x.email}}

\* [c for c in customers if c.email not in existing_emails]
to_create(customers, existing) == SelectSeq(customers, LAMBDA c : c.email \notin existing)

\* Product.objects.filter(sku__in=...).values_list("sku", flat=True)
existing_skus(products, dfp) ==
    {p.sku : p \in {x \in products : \E i \in DOMAIN dfp : dfp[i].sku = x.sku}}

\* the loop over dfp: a row whose stripped sku is an existing sku is skipped
prods(dfp, existing) ==
    LET all == [i \in DOMAIN dfp |-> Product(dfp[i])]
    IN  SelectSeq(all, LAMBDA p : p.sku \notin existing)

\* an insert without a unique column: the row is added whatever the table holds
insert_always(table, row, key) == table \cup {row}

\* an insert that replaces the row it conflicts with
insert_overwrite(table, row, key) == {x \in table : x[key] # row[key]} \cup {row}

\* INSERT ... ON CONFLICT DO NOTHING of one row against a unique column
insert_ignore_conflicts(table, row, key) ==
    IF \E x \in table : x[key] = row[key] THEN table ELSE table \cup {row}

\* Model.objects.bulk_create(rows, ignore_conflicts=True)
RECURSIVE bulk_create_ignore(_, _, _)
bulk_create_ignore(table, rows, key) ==
    IF rows = <<>> THEN table
    ELSE bulk_create_ignore(insert_ignore_conflicts(table, Head(rows), key),
                            Tail(rows), key)

OrderRowKey(r) == <<r.customer_email, r.product_sku, r.quantity, r.order_date, r.note>>

\* dfo.drop_duplicates(subset=[the five columns]): on the cells as read
dedup_orders(dfo) ==
    drop_duplicates(dfo, [i \in DOMAIN dfo |-> OrderRowKey(dfo[i])], {})

\* cust_map / prod_map: the stored parents whose key occurs in the file
cust_map(customers, dfo) ==
    {c \in customers : \E i \in DOMAIN dfo : dfo[i].customer_email = c.email}

prod_map(products, dfo) ==
    {p \in products : \E i \in DOMAIN dfo : dfo[i].product_sku = p.sku}

\* the loop building `orders`: a row with an unresolved parent is skipped
RECURSIVE build_orders(_, _, _)
build_orders(dfo, cmap, pmap) ==
    IF dfo = <<>> THEN <<>>
    ELSE LET r == Head(dfo)
             cs == {c \in cmap : c.email = r.customer_email}
             ps == {p \in pmap : p.sku = r.product_sku}
         IN  IF cs = {} \/ ps = {} THEN build_orders(Tail(dfo), cmap, pmap)
             ELSE <<Order(CHOOSE c \in cs : TRUE, CHOOSE p \in ps : TRUE, r)>>
                  \o build_orders(Tail(dfo), cmap, pmap)

\* Order.objects.values_list("customer__email", "product__sku", "quantity",
\*                           "order_date", "note")
existing_orders(orders) == BagToSet(orders)

\* no order is taken for already stored
filtered_none(orders, existing) == orders

\* the orders not already in the store
filtered(orders, existing) == SelectSeq(orders, LAMBDA o : o \notin existing)

RECURSIVE SeqToBag(_)
SeqToBag(s) == IF s = <<>> THEN EmptyBag ELSE SetToBag({Head(s)}) (+) SeqToBag(Tail(s))

\* PositiveIntegerField: the column carries CHECK (quantity >= 0)
check_quantity(o) == o.quantity >= 0

\* the three phases of cmd_import, each a read of one file followed by a
\* bulk insert; a phase returns the new store and how it ended
import_customers(db, file) ==
    IF ~file.exists THEN [db |-> db, result |-> "FileNotFoundError"]
    ELSE LET dfc == read_customers(file)
             customers == [i \in DOMAIN dfc |-> Customer(dfc[i])]
             new == to_create(customers, existing_emails(db.customers, dfc))
         IN  [db |-> [db EXCEPT !.customers = bulk_create_ignore(@, new, "email")],
              result |-> "ok"]

import_products(db, file) ==
    IF ~file.exists THEN [db |-> db, result |-> "FileNotFoundError"]
    ELSE LET dfp == read_products(file)
             new == prods(dfp, existing_skus(db.products, dfp))
         IN  [db |-> [db EXCEPT !.products = bulk_create_ignore(@, new, "sku")],
              result |-> "ok"]

import_orders(db, file) ==
    IF ~file.exists THEN [db |-> db, result |-> "FileNotFoundError"]
    ELSE LET dfo == dedup_orders(read_orders(file))
             cmap == cust_map(db.customers, dfo)
             pmap == prod_map(db.products, dfo)
             orders == build_orders(dfo, cmap, pmap)
             unparsed == \E i \in DOMAIN orders : orders[i].order_date = NoDate
             new == filtered(orders, existing_orders(db.orders))
         IN  IF unparsed THEN [db |-> db, result |-> "ValueError"]
             ELSE IF \E i \in DOMAIN new : ~check_quantity(new[i])
                  THEN [db |-> db, result |-> "IntegrityError"]
                  ELSE [db |-> [db EXCEPT !.orders = @ (+) SeqToBag(new)],
                        result |-> "ok"]

\* cmd_import: customers, then products, then orders; an exception ends the
\* run where it is raised and what was inserted before it stays
cmd_import(db, fmt) ==
    LET c == import_customers(db, fmt.customers)
        p == import_products(c.db, fmt.products)
        o == import_orders(p.db, fmt.orders)
    IN  IF c.result # "ok" THEN c
        ELSE IF p.result # "ok" THEN p
        ELSE o

---------------------------------------------------------------------------
(* Family B: the store (myapp/models.py) and myapp/data_pipeline.py.       *)

\* Python's None, where an id is expected (ids are positive)
None == -1

\* CharField(max_length=100) of Author.name: name[:100]
NameMax == 100
\* bio[:500]
BioMax == 500
\* title[:200]
TitleMax == 200

Take(s, n) == SubSeq(s, 1, IF Len(s) < n THEN Len(s) ELSE n)

RECURSIVE NatText(_)
NatText(n) == IF n < 10 THEN <<Digits[n + 1]>> ELSE NatText(n \div 10) \o <<Digits[(n % 10) + 1]>>

\* _norm_text(value, fallback): a falsy value gives the fallback, any other
\* value is stripped
_norm_text(value, fallback) == IF value = <<>> THEN fallback ELSE strip(value)

\* sep.join(parts)
RECURSIVE join(_, _)
join(sep, parts) ==
    IF parts = <<>> THEN <<>>
    ELSE IF Len(parts) = 1 THEN parts[1]
    ELSE parts[1] \o sep \o join(sep, Tail(parts))

NonEmpty(parts) == SelectSeq(parts, LAMBDA t : t # <<>>)

\* _safe_price(post), in cents: max(views/120 + likes/15 - dislikes/25, 5.0)
\* quantized to 0.01 with ROUND_HALF_UP.  The sum is (5v + 40l - 24d) / 6 cents.
_safe_price(post) ==
    LET num == 5 * post.views + 40 * post.likes - 24 * post.dislikes
        cents == (2 * num + 6) \div 12
    IN  IF num <= 6 * 500 THEN 500 ELSE cents

\* Author(id, name, bio) for one user
Author(user) ==
    LET full_name == join(<<" ">>, NonEmpty(<<_norm_text(user.firstName, <<>>),
                                              _norm_text(user.lastName, <<>>)>>))
        generated == <<"U", "s", "e", "r", " ">> \o NatText(user.id)
        name == IF full_name # <<>> THEN full_name
                ELSE IF _norm_text(user.username, <<>>) # <<>>
                     THEN _norm_text(user.username, <<>>)
                     ELSE generated
        bio_bits == NonEmpty(<<_norm_text(user.company_title, <<>>),
                               _norm_text(user.company_name, <<>>),
                               _norm_text(user.university, <<>>)>>)
        joined == join(<<" ", "|", " ">>, bio_bits)
        bio == IF joined # <<>> THEN joined
               ELSE <<"N", "o", " ", "b", "i", "o", " ",
                      "p", "r", "o", "v", "i", "d", "e", "d", ".">>
    IN  [id |-> user.id, name |-> Take(name, NameMax), bio |-> Take(bio, BioMax)]

\* _clean_authors(users): the first user of each id
RECURSIVE clean_authors_from(_, _)
clean_authors_from(users, seen) ==
    IF users = <<>> THEN <<>>
    ELSE IF Head(users).id \in seen THEN clean_authors_from(Tail(users), seen)
         ELSE <<Author(Head(users))>>
              \o clean_authors_from(Tail(users), seen \cup {Head(users).id})

_clean_authors(users) == clean_authors_from(users, {})

\* next(iter(author_ids), None): CPython keeps small non-negative integers in
\* a set at the slot of their value, so the first one iterated is the least
default_author_id(author_ids) ==
    IF author_ids = {} THEN None
    ELSE CHOOSE a \in author_ids : \A b \in author_ids : a <= b

\* the author a book is given: its own when accepted, else the default
book_author_id(post, author_ids) ==
    IF post.userId \notin author_ids THEN default_author_id(author_ids) ELSE post.userId

\* _clean_books(posts, author_ids): every post gives a book
_clean_books(posts, author_ids) ==
    [i \in DOMAIN posts |->
        [id |-> posts[i].id,
         title |-> Take(_norm_text(posts[i].title,
                                   <<"U", "n", "t", "i", "t", "l", "e", "d", " ">>
                                   \o NatText(posts[i].id)), TitleMax),
         author_id |-> book_author_id(posts[i], author_ids),
         price |-> _safe_price(posts[i])]]

\* every comment is kept
review_kept_all(comment, book_ids) == TRUE

\* the loop's test in _clean_reviews: a comment on an unknown book is skipped
review_kept(comment, book_ids) == comment.postId \in book_ids

Min(a, b) == IF a < b THEN a ELSE b

Max(a, b) == IF a > b THEN a ELSE b

\* _clean_reviews(comments, book_ids)
_clean_reviews(comments, book_ids) ==
    LET kept == SelectSeq(comments, LAMBDA c : review_kept(c, book_ids))
    IN  [i \in DOMAIN kept |->
            [id |-> kept[i].id,
             book_id |-> kept[i].postId,
             content |-> _norm_text(kept[i].body,
                             <<"N", "o", " ", "c", "o", "n", "t", "e", "n", "t", " ",
                               "p", "r", "o", "v", "i", "d", "e", "d", ".">>),
             rating |-> Max(1, Min(5, (kept[i].likes \div 2) + 1))]]

EmptyLibrary == [authors |-> {}, books |-> {}, reviews |-> {}]

\* a reset that deletes the reviews only
reset_reviews_only(db) == [db EXCEPT !.reviews = {}]

\* reset_tables(): Review, then Book, then Author rows are all deleted
reset_tables(db) ==
    LET noReviews == [db EXCEPT !.reviews = {}]
        noBooks == [noReviews EXCEPT !.books = {}]
    IN  [noBooks EXCEPT !.authors = {}]

\* Book.author is NOT NULL: a book without an author cannot be inserted
has_author(book) == book.author_id # None

\* import_data(): the three files are loaded first, then the tables are reset
\* and filled.  The value is the set of ways the run can end, each the store
\* it leaves and the result.  Where a book has no author the insert violates
\* NOT NULL: the store either raises IntegrityError for the statement, which
\* ends the run, or (INSERT OR IGNORE) skips the row.
import_data(db, json) ==
    IF ~json.users.exists \/ ~json.posts.exists \/ ~json.comments.exists
    THEN {[db |-> db, result |-> "FileNotFoundError"]}
    ELSE LET empty == reset_tables(db)
             authors == _clean_authors(json.users.rows)
             withAuthors ==
                 [empty EXCEPT !.authors = bulk_create_ignore(@, authors, "id")]
             author_ids == {a.id : a \in withAuthors.authors}
             books == _clean_books(json.posts.rows, author_ids)
             insertable == SelectSeq(books, has_author)
             withBooks ==
                 [withAuthors EXCEPT !.books = bulk_create_ignore(@, insertable, "id")]
             book_ids == {b.id : b \in withBooks.books}
             reviews == _clean_reviews(json.comments.rows, book_ids)
             done == [withBooks EXCEPT
                          !.reviews = bulk_create_ignore(@, reviews, "id")]
         IN  IF \E i \in DOMAIN books : ~has_author(books[i])
             THEN {[db |-> withAuthors, result |-> "IntegrityError"],
                   [db |-> done, result |-> "ok"]}
             ELSE {[db |-> done, result |-> "ok"]}

---------------------------------------------------------------------------
(* Family A: the normalizers and cmd_clean.  The columns of a raw file are *)
(* read as text: an empty cell is a missing value, any other cell is kept  *)
(* as it is written, spaces included.                                      *)

\* an email cleaner that keeps the case
clean_email_keep_case(x) == IF isna(x) THEN <<>> ELSE strip(str(x))

\* clean_email(x)
clean_email(x) == IF isna(x) THEN <<>> ELSE lower(strip(str(x)))

\* clean_phone(x): the digits, the last 8 of them when there are more
clean_phone(x) ==
    IF isna(x) THEN <<>>
    ELSE LET digits == SelectSeq(strip(str(x)), IsDigit)
         IN  IF Len(digits) > 8 THEN SubSeq(digits, Len(digits) - 7, Len(digits))
             ELSE digits

Truthy ==
    {<<"1">>, <<"t", "r", "u", "e">>, <<"t">>, <<"y", "e", "s">>, <<"y">>}

\* clean_bool(x)
clean_bool(x) ==
    IF isna(x) \/ strip(str(x)) = <<>> THEN TRUE
    ELSE lower(strip(str(x))) \in Truthy

\* s.replace(old, ""), old of one, two or three characters
RECURSIVE remove(_, _)
remove(s, old) ==
    IF Len(s) < Len(old) THEN s
    ELSE IF SubSeq(s, 1, Len(old)) = old
         THEN remove(SubSeq(s, Len(old) + 1, Len(s)), old)
         ELSE <<Head(s)>> \o remove(Tail(s), old)

\* clean_price(x): the digits and dots left once the currency marks and the
\* thousands separators are gone
clean_price(x) ==
    IF isna(x) THEN <<"0">>
    ELSE LET a == remove(remove(strip(str(x)), <<"H", "K", "$">>), <<"$">>)
             b == strip(remove(a, <<",">>))
             c == SelectSeq(b, LAMBDA ch : IsDigit(ch) \/ ch = ".")
         IN  IF c = <<>> THEN <<"0">> ELSE c

\* clean_date(x): the first of the four formats that parses x
clean_date(x) ==
    IF isna(x) THEN <<>>
    ELSE LET t == strip(str(x))
             d1 == strptime(t, TRUE, "-")
             d2 == strptime(t, TRUE, "/")
             d3 == strptime(t, FALSE, "-")
             d4 == strptime(t, FALSE, "/")
         IN  IF d1 # NoDate THEN isoformat(d1)
             ELSE IF d2 # NoDate THEN isoformat(d2)
             ELSE IF d3 # NoDate THEN isoformat(d3)
             ELSE IF d4 # NoDate THEN isoformat(d4)
             ELSE <<>>

\* pd.to_numeric(text, errors="coerce") of a signed decimal numeral followed
\* by fillna(1).astype(int): the integer part, 1 when the text is no number
clean_quantity(x) ==
    LET t == strip(str(x))
        neg == t # <<>> /\ Head(t) = "-"
        u == IF neg THEN Tail(t) ELSE t
        p == Split(u, ".")
        numeral == /\ Len(p) \in {1, 2}
                   /\ \A i \in DOMAIN p : AllDigits(p[i])
                   /\ \E i \in DOMAIN p : p[i] # <<>>
    IN  IF ~numeral THEN 1
        ELSE IF neg THEN 0 - ToNat(p[1]) ELSE ToNat(p[1])

\* the customers block of cmd_clean
clean_customers(rows) ==
    LET dfc == [i \in DOMAIN rows |->
                   [full_name |-> strip(str(read_cell(rows[i].full_name))),
                    email |-> clean_email(read_cell(rows[i].email)),
                    phone |-> clean_phone(read_cell(rows[i].phone))]]
        kept == SelectSeq(dfc, LAMBDA r : r.email # <<>>)
    IN  drop_duplicates(kept, [i \in DOMAIN kept |-> kept[i].email], {})

\* the products block of cmd_clean
clean_products(rows) ==
    LET dfp == [i \in DOMAIN rows |->
                   [sku |-> strip(str(read_cell(rows[i].sku))),
                    name |-> strip(str(read_cell(rows[i].name))),
                    price |-> clean_price(read_cell(rows[i].price)),
                    is_active |-> clean_bool(read_cell(rows[i].is_active))]]
    IN  drop_duplicates(dfp, [i \in DOMAIN dfp |-> dfp[i].sku], {})

\* the test of the orders block: the three columns compared with ""
order_kept(r) == r.customer_email # <<>> /\ r.product_sku # <<>> /\ r.order_date # <<>>

\* the orders block of cmd_clean
clean_orders(rows) ==
    LET dfo == [i \in DOMAIN rows |->
                   [customer_email |-> clean_email(read_cell(rows[i].customer_email)),
                    product_sku |-> strip(str(read_cell(rows[i].product_sku))),
                    quantity |-> clean_quantity(read_cell(rows[i].quantity)),
                    order_date |-> clean_date(read_cell(rows[i].order_date)),
                    note |-> strip(str(read_cell(rows[i].note)))]]
    IN  SelectSeq(dfo, order_kept)

\* cmd_clean: each file is read, cleaned and written before the next is read
cmd_clean(rawfiles, out) ==
    IF ~rawfiles.customers.exists THEN [files |-> out, result |-> "FileNotFoundError"]
    ELSE LET c == [out EXCEPT !.customers = File(clean_customers(rawfiles.customers.rows))]
         IN  IF ~rawfiles.products.exists
             THEN [files |-> c, result |-> "FileNotFoundError"]
             ELSE LET p == [c EXCEPT
                               !.products = File(clean_products(rawfiles.products.rows))]
                  IN  IF ~rawfiles.orders.exists
                      THEN [files |-> p, result |-> "FileNotFoundError"]
                      ELSE [files |-> [p EXCEPT !.orders =
                                          File(clean_orders(rawfiles.orders.rows))],
                            result |-> "ok"]

---------------------------------------------------------------------------
(* Family A: cmd_format.                                                   *)

\* a text pandas and Decimal both read as a number: digits with at most one dot
IsNumeral(t) ==
    LET p == Split(t, ".")
    IN  /\ Len(p) \in {1, 2}
        /\ \A i \in DOMAIN p : AllDigits(p[i])
        /\ \E i \in DOMAIN p : p[i] # <<>>

\* read_csv of the price column: a column whose cells are all numbers is read
\* as numbers (binary floating point), any other column as text
read_prices(rows) ==
    LET numeric == \A i \in DOMAIN rows : IsNumeral(rows[i].price)
    IN  [i \in DOMAIN rows |-> [text |-> rows[i].price, numeric |-> numeric]]

RECURSIVE Log2Down(_, _, _)
Log2Down(n, t, b) == IF 2 * t <= n THEN Log2Down(n, 2 * t, b + 1) ELSE b

RECURSIVE Log2Up(_, _)
Log2Up(n, k) == IF n >= 1000 THEN k ELSE Log2Up(2 * n, k + 1)

RECURSIVE PowMod(_)
PowMod(e) == IF e = 0 THEN 1 ELSE (2 * PowMod(e - 1)) % 1000

\* how the double nearest to n/1000 compares with n/1000: the 53-bit
\* significand is n * 2^e / 1000 rounded, and the remainder of that division
\* tells on which side of n/1000 the double lies
DoubleOf(n) ==
    LET b == IF n >= 1000 THEN Log2Down(n, 1000, 0) ELSE 0 - Log2Up(n, 0)
        r == ((n % 1000) * PowMod(52 - b)) % 1000
    IN  IF n = 0 \/ r = 0 THEN "exact" ELSE IF r < 500 THEN "below" ELSE "above"

\* to_decimal_str(x): Decimal(x).quantize(Decimal("0.01")) in cents, x a cell
\* of the price column; a text that is no decimal numeral gives 0.00.
\* quantize rounds as the decimal context does, half to even, and a number
\* cell is the exact value of its double, which lies beside a decimal tie
\* unless the tie is a binary fraction.
to_decimal_str(x) ==
    LET p == Split(x.text, ".")
        frac == IF Len(p) = 2 THEN p[2] ELSE <<>>
        kept == ToNat(SubSeq(frac \o <<"0", "0">>, 1, 2))
        rest == SubSeq(frac, 3, Len(frac))
        half == <<"5">> \o [i \in 1..(Len(rest) - 1) |-> "0"]
        floor == 100 * ToNat(p[1]) + kept
        above == rest # <<>> /\ ToNat(rest) > ToNat(half)
        tie == rest # <<>> /\ rest = half
        double == IF x.numeric /\ tie THEN DoubleOf(10 * floor + 5) ELSE "exact"
    IN  IF ~IsNumeral(x.text) THEN 0
        ELSE IF above \/ (tie /\ double = "above") THEN floor + 1
        ELSE IF tie /\ double = "exact" /\ floor % 2 = 1 THEN floor + 1
        ELSE floor

\* the three blocks of cmd_format: read, project the columns, write
format_customers(rows) ==
    [i \in DOMAIN rows |->
        [full_name |-> write_cell(read_cell(rows[i].full_name)),
         email |-> write_cell(read_cell(rows[i].email)),
         phone |-> write_cell(read_cell(rows[i].phone))]]

format_products(rows) ==
    LET prices == read_prices(rows)
    IN  [i \in DOMAIN rows |->
            [sku |-> write_cell(read_cell(rows[i].sku)),
             name |-> write_cell(read_cell(rows[i].name)),
             price |-> to_decimal_str(prices[i]),
             is_active |-> rows[i].is_active]]

format_orders(rows) ==
    [i \in DOMAIN rows |->
        [customer_email |-> write_cell(read_cell(rows[i].customer_email)),
         product_sku |-> write_cell(read_cell(rows[i].product_sku)),
         quantity |-> rows[i].quantity,
         order_date |-> write_cell(read_cell(rows[i].order_date)),
         note |-> write_cell(read_cell(rows[i].note))]]

\* cmd_format: each cleaned file is read and its formatted file written
\* before the next is read
cmd_format(cleanfiles, out) ==
    IF ~cleanfiles.customers.exists THEN [files |-> out, result |-> "FileNotFoundError"]
    ELSE LET c == [out EXCEPT !.customers = File(format_customers(cleanfiles.customers.rows))]
         IN  IF ~cleanfiles.products.exists
             THEN [files |-> c, result |-> "FileNotFoundError"]
             ELSE LET p == [c EXCEPT
                               !.products = File(format_products(cleanfiles.products.rows))]
                  IN  IF ~cleanfiles.orders.exists
                      THEN [files |-> p, result |-> "FileNotFoundError"]
                      ELSE [files |-> [p EXCEPT !.orders =
                                          File(format_orders(cleanfiles.orders.rows))],
                            result |-> "ok"]

---------------------------------------------------------------------------
(* The inputs of the loaders.                                              *)

FmtCustomerRows ==
    {[full_name |-> <<"n">>, email |-> <<"a">>, phone |-> <<"7">>],
     [full_name |-> <<"m">>, email |-> <<"a">>, phone |-> <<"8">>],
     [full_name |-> <<"n">>, email |-> <<"b">>, phone |-> <<"7">>]}

FmtProductRows ==
    {[sku |-> <<"S">>, name |-> <<"p">>, price |-> 100, is_active |-> TRUE],
     [sku |-> <<" ", "S">>, name |-> <<"q">>, price |-> 250, is_active |-> FALSE],
     [sku |-> <<"T">>, name |-> <<"p">>, price |-> 100, is_active |-> TRUE]}

FmtOrder(e, k, n) ==
    [customer_email |-> e, product_sku |-> k, quantity |-> 1,
     order_date |-> IsoText, note |-> n]

FmtOrderRows ==
    {FmtOrder(<<"a">>, <<"S">>, <<"x">>), FmtOrder(<<"a">>, <<"S">>, <<" ", "x">>),
     FmtOrder(<<"b">>, <<"S">>, <<"x">>), FmtOrder(<<"a">>, <<"T">>, <<>>)}

EmptyCsv == File(<<>>)

\* what scripts/formatted/ may hold when cmd_import runs: files of up to
\* MaxRows (MaxOrders) rows, one kind at a time beside empty files of the other
\* kinds, and files of at most one row, or missing, in every combination
FormattedInputs ==
    {[customers |-> c, products |-> EmptyCsv, orders |-> EmptyCsv] :
        c \in FilesOf(FmtCustomerRows, MaxRows)}
    \cup {[customers |-> EmptyCsv, products |-> p, orders |-> EmptyCsv] :
             p \in FilesOf(FmtProductRows, MaxRows)}
    \cup {[customers |-> EmptyCsv, products |-> EmptyCsv, orders |-> o] :
             o \in FilesOf(FmtOrderRows, MaxOrders)}
    \cup [customers : FilesOf(FmtCustomerRows, 1) \cup {NoFile},
          products : FilesOf(FmtProductRows, 1) \cup {NoFile},
          orders : FilesOf(FmtOrderRows, 1) \cup {NoFile}]

User(id, firstName) ==
    [id |-> id, firstName |-> firstName, lastName |-> <<>>, username |-> <<"u">>,
     company_title |-> <<>>, company_name |-> <<>>, university |-> <<>>]

UserRows == {User(1, <<"A">>), User(1, <<>>), User(2, <<"A">>)}

Post(id, userId) ==
    [id |-> id, userId |-> userId, title |-> <<"T">>,
     views |-> 0, likes |-> 0, dislikes |-> 0]

PostRows == {Post(1, 1), Post(1, 3), Post(2, 3)}

Comment(id, postId) == [id |-> id, postId |-> postId, body |-> <<"c">>, likes |-> 0]

CommentRows == {Comment(1, 1), Comment(1, 3), Comment(2, 2)}

SomeUsers == File(<<User(1, <<"A">>)>>)

SomePosts == File(<<Post(1, 1), Post(2, 3)>>)

SomeComments == File(<<Comment(1, 1), Comment(2, 2)>>)

\* what database/ may hold when import_data runs: files of up to MaxRows rows,
\* one kind at a time beside the files above, and files of at most one row,
\* or missing, in every combination
JsonInputs ==
    {[users |-> u, posts |-> SomePosts, comments |-> SomeComments] :
        u \in FilesOf(UserRows, MaxRows)}
    \cup {[users |-> SomeUsers, posts |-> q, comments |-> SomeComments] :
             q \in FilesOf(PostRows, MaxRows)}
    \cup {[users |-> SomeUsers, posts |-> SomePosts, comments |-> c] :
             c \in FilesOf(CommentRows, MaxRows)}
    \cup [users : FilesOf(UserRows, 1) \cup {NoFile},
          posts : FilesOf(PostRows, 1) \cup {NoFile},
          comments : FilesOf(CommentRows, 1) \cup {NoFile}]

---------------------------------------------------------------------------
(* The commands.                                                           *)

NoFiles == [customers |-> NoFile, products |-> NoFile, orders |-> NoFile]

\* an export directory before any export: no file of either application
NoExports ==
    [customers |-> [exists |-> FALSE, rows |-> {}],
     products |-> [exists |-> FALSE, rows |-> {}],
     orders |-> [exists |-> FALSE, rows |-> EmptyBag],
     authors |-> [exists |-> FALSE, rows |-> {}],
     books |-> [exists |-> FALSE, rows |-> {}],
     reviews |-> [exists |-> FALSE, rows |-> {}]]

\* no command under way
NoProcs == <<>>

Ran(cmd, result) == [cmd |-> cmd, result |-> result]

\* scripts/data_pipeline.py import, on the formatted files fmt
RunImport(fmt) ==
    /\ app = "scripts"
    /\ LET r == cmd_import(store, fmt)
       IN  /\ store' = r.db
           /\ last' = Ran("import", r.result)
    /\ UNCHANGED <<app, raw, cleaned, formatted, library, exports, procs>>

\* myapp/data_pipeline.py import
RunImportData ==
    /\ app = "myapp"
    /\ \E json \in JsonInputs :
          \E out \in import_data(library, json) :
             /\ library' = out.db
             /\ last' = Ran("import", out.result)
    /\ UNCHANGED <<app, raw, cleaned, formatted, store, exports, procs>>

\* myapp/data_pipeline.py reset
RunReset ==
    /\ app = "myapp"
    /\ library' = reset_tables(library)
    /\ last' = Ran("reset", "ok")
    /\ UNCHANGED <<app, raw, cleaned, formatted, store, exports, procs>>

\* The loaders: any sequence of imports and resets, each import on any input.
\* The two applications keep separate tables and neither reads the other's,
\* so a behaviour runs one of them.
Init ==
    /\ app \in {"scripts", "myapp"}
    /\ raw = NoFiles
    /\ cleaned = NoFiles
    /\ formatted = NoFiles
    /\ store = EmptyStore
    /\ library = EmptyLibrary
    /\ last = Ran("none", "ok")
    /\ exports = NoExports
    /\ procs = NoProcs

Load == \E fmt \in FormattedInputs : RunImport(fmt)

Next == Load \/ RunImportData \/ RunReset

Spec == Init /\ [][Next]_vars

---------------------------------------------------------------------------
(* The pipeline: clean, format and import run in any order, any number of  *)
(* times, on raw files that stay as they are.                              *)

Phone == <<"8", "5", "2", " ", "9", "1", "2", "3", "-", "4", "5", "6", "7">>

RawCustomer(full_name, email) == [full_name |-> full_name, email |-> email, phone |-> Phone]

RawCustomerRows ==
    {RawCustomer(<<"n">>, <<>>), RawCustomer(<<"m", " ">>, <<" ">>),
     RawCustomer(<<"n">>, <<"a">>), RawCustomer(<<"m", " ">>, <<" ", "A">>),
     RawCustomer(<<"m", " ">>, <<"a">>), RawCustomer(<<"n">>, <<"b">>)}

RawProduct ==
    [sku |-> <<"S">>, name |-> <<"p">>, price |-> <<"H", "K", "$", " ", "1", ",", "2", "9", "9">>,
     is_active |-> <<"T", "R", "U", "E">>]

RawProductOf(k, price) ==
    [sku |-> k, name |-> <<"p">>, price |-> price, is_active |-> <<"T", "R", "U", "E">>]

RawPrices ==
    {<<"H", "K", "$", " ", "1", ",", "2", "9", "9", ".", "0", "0">>, <<"$", "9", "9">>,
     <<"0", ".", "1", "2", "5">>, <<"0", ".", "0", "1", "5">>, <<"1", ".", "2", ".", "3">>,
     <<"a", "b", "c">>}

RawProductRows == {RawProductOf(k, price) : k \in {<<"S">>, <<"T">>}, price \in RawPrices}

RawOrder(e, k, q, d, n) ==
    [customer_email |-> e, product_sku |-> k, quantity |-> q, order_date |-> d, note |-> n]

Dmy == <<"3", "1", "-", "1", "2", "-", "2", "0", "2", "3">>

RawOrderRows ==
    {RawOrder(<<"a">>, <<"S">>, <<"2">>, IsoText, <<"x">>),
     RawOrder(<<" ", "A">>, <<"S", " ">>, <<" ", "2">>, Dmy, <<" ", "x">>),
     RawOrder(<<>>, <<"S">>, <<"2">>, IsoText, <<"x">>),
     RawOrder(<<"a">>, <<" ">>, <<"2">>, IsoText, <<"x">>),
     RawOrder(<<"a">>, <<>>, <<"2">>, IsoText, <<"x">>),
     RawOrder(<<"a">>, <<"S">>, <<"2">>, <<"n", "o", "-", "d", "a", "t", "e">>, <<"x">>),
     RawOrder(<<"a">>, <<"S">>, <<"2">>, <<>>, <<"x">>),
     RawOrder(<<"a">>, <<"S">>, <<"0">>, IsoText, <<"x">>),
     RawOrder(<<"a">>, <<"S">>, <<"-", "1">>, IsoText, <<>>),
     RawOrder(<<"a">>, <<"S">>, <<"x">>, IsoText, <<>>)}

FixedCustomers == File(<<RawCustomer(<<"n">>, <<"a">>)>>)

FixedProducts == File(<<RawProduct>>)

FixedOrders == File(<<RawOrder(<<"a">>, <<"S">>, <<"2">>, IsoText, <<"x">>)>>)

\* what scripts/raw/ may hold: any customers file, any products file or any
\* orders file, beside the other files, or any of the three files missing
RawInputs ==
    {[customers |-> c, products |-> FixedProducts, orders |-> FixedOrders] :
        c \in FilesOf(RawCustomerRows, MaxRawRows)}
    \cup {[customers |-> FixedCustomers, products |-> q, orders |-> FixedOrders] :
             q \in FilesOf(RawProductRows, MaxRawProducts)}
    \cup {[customers |-> FixedCustomers, products |-> FixedProducts, orders |-> o] :
             o \in FilesOf(RawOrderRows, MaxRawOrders)}
    \cup [customers : {NoFile, FixedCustomers}, products : {NoFile, FixedProducts},
          orders : {NoFile, FixedOrders}]

\* scripts/data_pipeline.py clean
RunClean ==
    /\ app = "scripts"
    /\ LET r == cmd_clean(raw, cleaned)
       IN  /\ cleaned' = r.files
           /\ last' = Ran("clean", r.result)
    /\ UNCHANGED <<app, raw, formatted, store, library, exports, procs>>

\* scripts/data_pipeline.py format
RunFormat ==
    /\ app = "scripts"
    /\ LET r == cmd_format(cleaned, formatted)
       IN  /\ formatted' = r.files
           /\ last' = Ran("format", r.result)
    /\ UNCHANGED <<app, raw, cleaned, store, library, exports, procs>>

InitPipeline ==
    /\ app = "scripts"
    /\ raw \in RawInputs
    /\ cleaned = NoFiles
    /\ formatted = NoFiles
    /\ store = EmptyStore
    /\ library = EmptyLibrary
    /\ last = Ran("none", "ok")
    /\ exports = NoExports
    /\ procs = NoProcs

Pipe == RunImport(formatted)

NextPipeline == RunClean \/ RunFormat \/ Pipe

SpecPipeline == InitPipeline /\ [][NextPipeline]_vars

---------------------------------------------------------------------------
(* Export.  A table is read with one query and written as one file; the    *)
(* rows of an export file are held as the table holds them, a set or a bag.*)

\* the row cmd_export writes for an Order
order_export_row(o) ==
    [customer_email |-> o.customer, product_sku |-> o.product, quantity |-> o.quantity,
     order_date |-> isoformat(o.order_date), note |-> o.note]

\* an export that also empties the tables it has read
export_and_delete(db, out) ==
    [db |-> [t \in DOMAIN db |-> IF t = "orders" THEN EmptyBag ELSE {}],
     files |-> out, result |-> "ok"]

\* an export reads the tables and writes files: the store it leaves is the
\* store it found
export_result(db, out) == [db |-> db, files |-> out, result |-> "ok"]

\* cmd_export: customers_export.csv, products_export.csv, orders_export.csv
cmd_export(db, out) ==
    export_result(db,
        [out EXCEPT !.customers = [exists |-> TRUE, rows |-> db.customers],
                    !.products = [exists |-> TRUE, rows |-> db.products],
                    !.orders = [exists |-> TRUE,
                                rows |-> BagOfAll(order_export_row, db.orders)]])

\* export_csv: authors.csv, books.csv, reviews.csv
export_csv(db, out) ==
    export_result(db,
        [out EXCEPT !.authors = [exists |-> TRUE, rows |-> db.authors],
                    !.books = [exists |-> TRUE, rows |-> db.books],
                    !.reviews = [exists |-> TRUE, rows |-> db.reviews]])

\* scripts/data_pipeline.py export
RunExport ==
    /\ app = "scripts"
    /\ LET r == cmd_export(store, exports)
       IN  /\ store' = r.db
           /\ exports' = r.files
           /\ last' = Ran("export", r.result)
    /\ UNCHANGED <<app, raw, cleaned, formatted, library, procs>>

\* myapp/data_pipeline.py export
RunExportCsv ==
    /\ app = "myapp"
    /\ LET r == export_csv(library, exports)
       IN  /\ library' = r.db
           /\ exports' = r.files
           /\ last' = Ran("export", r.result)
    /\ UNCHANGED <<app, raw, cleaned, formatted, store, procs>>

\* Either application with its export: the pipeline of family A on raw files
\* that stay as they are, or the loader of family B, and exports in between.
InitExport == InitPipeline \/ (Init /\ app = "myapp")

NextExport ==
    \/ RunClean \/ RunFormat \/ Pipe \/ RunExport
    \/ RunImportData \/ RunReset \/ RunExportCsv

SpecExport == InitExport /\ [][NextExport]_vars

---------------------------------------------------------------------------
(* Reset, statement by statement.  Each delete() is a statement of its own *)
(* and the tables can be seen between two of them.  A delete() of a parent *)
(* table also deletes the rows that reference it (on_delete=CASCADE).      *)

\* a delete that deletes nothing
delete_nothing(db) == db

\* Review.objects.all().delete()
delete_reviews(db) == [db EXCEPT !.reviews = {}]

\* Book.objects.all().delete(): the books and the reviews of these books
delete_books(db) ==
    [db EXCEPT !.books = {},
               !.reviews = {r \in @ : ~\E b \in db.books : b.id = r.book_id}]

\* Author.objects.all().delete(): the authors, their books and the reviews
\* of these books
delete_authors(db) ==
    LET books == {b \in db.books : ~\E a \in db.authors : a.id = b.author_id}
        gone == db.books \ books
    IN  [db EXCEPT !.authors = {},
                   !.books = books,
                   !.reviews = {r \in @ : ~\E b \in gone : b.id = r.book_id}]

\* a reset under way, about to run the statement pc
Resetting(pc) == <<[cmd |-> "reset", pc |-> pc]>>

\* reset_tables(), first statement
DeleteReviews ==
    /\ app = "myapp" /\ procs = NoProcs
    /\ library' = delete_reviews(library)
    /\ procs' = Resetting("books")
    /\ UNCHANGED <<app, raw, cleaned, formatted, store, last, exports>>

\* reset_tables(), second statement
DeleteBooks ==
    /\ app = "myapp" /\ procs = Resetting("books")
    /\ library' = delete_books(library)
    /\ procs' = Resetting("authors")
    /\ UNCHANGED <<app, raw, cleaned, formatted, store, last, exports>>

\* reset_tables(), third statement, and the end of the command
DeleteAuthors ==
    /\ app = "myapp" /\ procs = Resetting("authors")
    /\ library' = delete_authors(library)
    /\ procs' = NoProcs
    /\ last' = Ran("reset", "ok")
    /\ UNCHANGED <<app, raw, cleaned, formatted, store, exports>>

\* an import between two resets
LoadLibrary == procs = NoProcs /\ RunImportData

\* an export between two resets
ExportLibrary == procs = NoProcs /\ RunExportCsv

InitReset == Init /\ app = "myapp"

NextReset == LoadLibrary \/ ExportLibrary \/ DeleteReviews \/ DeleteBooks \/ DeleteAuthors

SpecReset == InitReset /\ [][NextReset]_vars

---------------------------------------------------------------------------
(* Two runs of cmd_import at once.  A run is a sequence of queries and     *)
(* inserts, each a statement of its own (no transaction spans them): the   *)
(* read of a file with the query for the existing keys, then the insert.   *)
(* The store is shared; the file contents, the list to insert and the      *)
(* position are the run's own.                                             *)

Runs == {1, 2}

\* a run that has not begun
NotBegun == [pc |-> "customers", fmt |-> NoFiles, to_create |-> <<>>,
             orders |-> EmptyBag, result |-> "none"]

\* what a run may find in scripts/formatted/: the inputs of the loader in
\* which one file at most is not an empty file, and the orders file has one
\* row at most
ConcurrentInputs ==
    {fmt \in FormattedInputs :
        /\ Cardinality({f \in {"customers", "products", "orders"} : fmt[f] # EmptyCsv}) <= 1
        /\ Len(fmt.orders.rows) <= 1}

\* the run ends with the exception of a missing file
Missing(p) == [p EXCEPT !.pc = "done", !.result = "FileNotFoundError"]

\* lines 213-229: the customers file is read and the existing emails queried
ReadCustomers(i) ==
    /\ app = "scripts" /\ procs[i].pc = "customers"
    /\ \E fmt \in ConcurrentInputs :
          LET dfc == read_customers(fmt.customers)
              customers == [j \in DOMAIN dfc |-> Customer(dfc[j])]
              new == to_create(customers, existing_emails(store.customers, dfc))
          IN  IF ~fmt.customers.exists
              THEN /\ procs' = [procs EXCEPT ![i] = Missing([@ EXCEPT !.fmt = fmt])]
                   /\ last' = Ran("import", "FileNotFoundError")
              ELSE /\ procs' = [procs EXCEPT ![i] = [@ EXCEPT !.pc = "insert_customers",
                                                          !.fmt = fmt,
                                                          !.to_create = new]]
                   /\ last' = last
    /\ UNCHANGED <<app, raw, cleaned, formatted, store, library, exports>>

\* line 230: Customer.objects.bulk_create(to_create, ignore_conflicts=True)
InsertCustomers(i) ==
    /\ app = "scripts" /\ procs[i].pc = "insert_customers"
    /\ store' = [store EXCEPT
                    !.customers = bulk_create_ignore(@, procs[i].to_create, "email")]
    /\ procs' = [procs EXCEPT ![i] = [@ EXCEPT !.pc = "products"]]
    /\ UNCHANGED <<app, raw, cleaned, formatted, library, last, exports>>

\* lines 233-251: the products file is read and the existing skus queried
ReadProducts(i) ==
    /\ app = "scripts" /\ procs[i].pc = "products"
    /\ LET file == procs[i].fmt.products
           dfp == read_products(file)
           new == prods(dfp, existing_skus(store.products, dfp))
       IN  IF ~file.exists
           THEN /\ procs' = [procs EXCEPT ![i] = Missing(@)]
                /\ last' = Ran("import", "FileNotFoundError")
           ELSE /\ procs' = [procs EXCEPT ![i] = [@ EXCEPT !.pc = "insert_products",
                                                       !.to_create = new]]
                /\ last' = last
    /\ UNCHANGED <<app, raw, cleaned, formatted, store, library, exports>>

\* line 252: Product.objects.bulk_create(prods, ignore_conflicts=True)
InsertProducts(i) ==
    /\ app = "scripts" /\ procs[i].pc = "insert_products"
    /\ store' = [store EXCEPT
                    !.products = bulk_create_ignore(@, procs[i].to_create, "sku")]
    /\ procs' = [procs EXCEPT ![i] = [@ EXCEPT !.pc = "orders"]]
    /\ UNCHANGED <<app, raw, cleaned, formatted, library, last, exports>>

\* lines 255-299: the orders file is read, the parents and the stored orders
\* queried, the orders to insert built
ReadOrders(i) ==
    /\ app = "scripts" /\ procs[i].pc = "orders"
    /\ LET r == import_orders(store, procs[i].fmt.orders)
       IN  IF r.result # "ok"
           THEN /\ procs' = [procs EXCEPT ![i] = [@ EXCEPT !.pc = "done",
                                                       !.result = r.result]]
                /\ last' = Ran("import", r.result)
           ELSE /\ procs' = [procs EXCEPT ![i] = [@ EXCEPT !.pc = "insert_orders",
                                                       !.orders = r.db.orders (-) store.orders]]
                /\ last' = last
    /\ UNCHANGED <<app, raw, cleaned, formatted, store, library, exports>>

\* line 301: Order.objects.bulk_create(filtered), and the end of the run
InsertOrders(i) ==
    /\ app = "scripts" /\ procs[i].pc = "insert_orders"
    /\ store' = [store EXCEPT !.orders = @ (+) procs[i].orders]
    /\ procs' = [procs EXCEPT ![i] = [@ EXCEPT !.pc = "done", !.result = "ok"]]
    /\ last' = Ran("import", "ok")
    /\ UNCHANGED <<app, raw, cleaned, formatted, library, exports>>

\* a store an earlier import has left: customer b and product S
LoadedStore ==
    cmd_import(EmptyStore,
               [customers |-> File(<<[full_name |-> <<"n">>, email |-> <<"b">>,
                                      phone |-> <<"7">>]>>),
                products |-> File(<<[sku |-> <<"S">>, name |-> <<"p">>, price |-> 100,
                                     is_active |-> TRUE]>>),
                orders |-> EmptyCsv]).db

InitImports ==
    /\ app = "scripts"
    /\ raw = NoFiles
    /\ cleaned = NoFiles
    /\ formatted = NoFiles
    /\ store \in {EmptyStore, LoadedStore}
    /\ library = EmptyLibrary
    /\ last = Ran("none", "ok")
    /\ exports = NoExports
    /\ procs = [i \in Runs |-> NotBegun]

NextImports ==
    \E i \in Runs :
       \/ ReadCustomers(i) \/ InsertCustomers(i)
       \/ ReadProducts(i) \/ InsertProducts(i)
       \/ ReadOrders(i) \/ InsertOrders(i)

SpecImports == InitImports /\ [][NextImports]_vars

---------------------------------------------------------------------------
(* Claims about the loaders, checked under Spec.                           *)

AllFormatted(fmt) == fmt.customers.exists /\ fmt.products.exists /\ fmt.orders.exists

AllJson(json) == json.users.exists /\ json.posts.exists /\ json.comments.exists

\* every row of store a is a row of store b, with the same attribute values
KeepsRowsA(a, b) ==
    /\ a.customers \subseteq b.customers
    /\ a.products \subseteq b.products
    /\ a.orders \sqsubseteq b.orders

KeepsRowsB(a, b) ==
    /\ a.authors \subseteq b.authors
    /\ a.books \subseteq b.books
    /\ a.reviews \subseteq b.reviews

\* C1: for both families and from every reachable store, importing the same
\* input a second time right after the first leaves the store exactly as the
\* first import left it: no row is added and none is removed.
C1_ImportTwiceIsImportOnce ==
    /\ app = "scripts" =>
          \A fmt \in FormattedInputs :
             LET once == cmd_import(store, fmt).db
             IN  cmd_import(once, fmt).db = once
    /\ app = "myapp" =>
          \A json \in JsonInputs :
             \A once \in import_data(library, json) :
                \A twice \in import_data(once.db, json) : twice.db = once.db

\* a loaded store on which some input's first import adds orders, and the
\* second import of that input adds nothing
C1_Witness ==
    /\ app = "scripts" /\ last = Ran("import", "ok")
    /\ store.customers # {} /\ store.products # {}
    /\ \E fmt \in FormattedInputs :
          LET once == cmd_import(store, fmt).db
          IN  /\ once.orders # store.orders
              /\ cmd_import(once, fmt).db = once

C3_NoDuplicateOrders ==
    \A o \in BagToSet(store.orders) : CopiesIn(o, store.orders) = 1

\* C4: every Order references a stored Customer and a stored Product, every
\* Review a stored Book and every Book a stored Author.
C4_ReferentialIntegrity ==
    /\ \A o \in BagToSet(store.orders) :
          /\ \E c \in store.customers : c.email = o.customer
          /\ \E p \in store.products : p.sku = o.product
    /\ \A r \in library.reviews : \E b \in library.books : b.id = r.book_id
    /\ \A b \in library.books : \E a \in library.authors : a.id = b.author_id

\* a store that holds orders of customer a while customer b, whom the order
\* files also name, is unknown to it: b's orders were not inserted
C4_Witness ==
    /\ app = "scripts" /\ last = Ran("import", "ok")
    /\ store.orders # EmptyBag
    /\ \A c \in store.customers : c.email # <<"b">>
    /\ \E fmt \in FormattedInputs :
          /\ AllFormatted(fmt)
          /\ \E i \in DOMAIN fmt.orders.rows : fmt.orders.rows[i].customer_email = <<"b">>
          /\ \A c \in cmd_import(store, fmt).db.customers : c.email # <<"b">>
          /\ cmd_import(store, fmt).db.orders = store.orders

PostsKeptWithAcceptedAuthor(json, out) ==
    LET ids == {a.id : a \in out.db.authors}
    IN  \A i \in DOMAIN json.posts.rows :
           \E b \in out.db.books :
              /\ b.id = json.posts.rows[i].id
              /\ b.author_id \in ids

\* C5: on every input of a family-B import every post gives a stored book
\* whose author is an accepted author, the accepted set being empty included.
C5_UnknownAuthorReassigned ==
    app = "myapp" =>
       \A json \in JsonInputs :
          AllJson(json) =>
             \A out \in import_data(library, json) :
                out.result = "ok" => PostsKeptWithAcceptedAuthor(json, out)

\* What the import does do: where the accepted author set is not empty every
\* post gives a book, under its own author when accepted and under an accepted
\* author otherwise; where it is empty the books are given no author and none
\* is stored.
BooksReassignedWhenAuthorsAccepted ==
    app = "myapp" =>
       \A json \in JsonInputs :
          AllJson(json) =>
             \A out \in import_data(library, json) :
                IF out.db.authors # {}
                THEN /\ out.result = "ok"
                     /\ PostsKeptWithAcceptedAuthor(json, out)
                     /\ \A i \in DOMAIN json.posts.rows :
                           LET post == json.posts.rows[i]
                               book == CHOOSE b \in out.db.books : b.id = post.id
                               first == \A j \in 1..(i - 1) : json.posts.rows[j].id # post.id
                           IN  first /\ post.userId \in {a.id : a \in out.db.authors}
                                  => book.author_id = post.userId
                ELSE /\ out.db.books = {}
                     /\ \A i \in DOMAIN json.posts.rows :
                           book_author_id(json.posts.rows[i], {}) = None

\* book 2 is only ever posted by user 3, who is no author: it is stored, under
\* an accepted author
BookOfUnknownAuthorStored ==
    /\ app = "myapp" /\ last = Ran("import", "ok")
    /\ \E b \in library.books :
          /\ b.id = 2
          /\ \E a \in library.authors : a.id = b.author_id

FirstWithKey(rows, i, key(_)) == \A j \in 1..(i - 1) : key(rows[j]) # key(rows[i])

CustomerKey(r) == r.email

ProductKey(r) == strip(str(r.sku))

\* C6: a family-A import that meets a Customer email or Product SKU already
\* stored, or met earlier in the file, ends without an error, leaves every
\* stored Customer and Product as it was, and still inserts the first record
\* of each new key.
C6_ConflictsSkippedOthersInserted ==
    app = "scripts" =>
       \A fmt \in FormattedInputs :
          AllFormatted(fmt) =>
             LET out == cmd_import(store, fmt)
                 dfc == read_customers(fmt.customers)
                 dfp == read_products(fmt.products)
             IN  /\ out.result = "ok"
                 /\ store.customers \subseteq out.db.customers
                 /\ store.products \subseteq out.db.products
                 /\ \A i \in DOMAIN dfc :
                       IF \E c \in store.customers : c.email = dfc[i].email
                       THEN \A c \in out.db.customers :
                               c.email = dfc[i].email => c \in store.customers
                       ELSE FirstWithKey(dfc, i, CustomerKey)
                               => Customer(dfc[i]) \in out.db.customers
                 /\ \A i \in DOMAIN dfp :
                       IF \E q \in store.products : q.sku = ProductKey(dfp[i])
                       THEN \A q \in out.db.products :
                               q.sku = ProductKey(dfp[i]) => q \in store.products
                       ELSE FirstWithKey(dfp, i, ProductKey)
                               => Product(dfp[i]) \in out.db.products
                 /\ \A c, d \in out.db.customers : c.email = d.email => c = d
                 /\ \A q, r \in out.db.products : q.sku = r.sku => q = r

\* a store that knows customer a and not b, and a file that names a under
\* another name, twice, and b: a is left as it was and b is inserted
C6_Witness ==
    /\ app = "scripts" /\ last = Ran("import", "ok")
    /\ \E c \in store.customers : c.email = <<"a">> /\ c.full_name = <<"n">>
    /\ \A c \in store.customers : c.email # <<"b">>
    /\ store.products # {}
    /\ \E fmt \in FormattedInputs :
          /\ AllFormatted(fmt)
          /\ Len(fmt.customers.rows) = 2
          /\ fmt.customers.rows[1].email = <<"a">>
          /\ fmt.customers.rows[1].full_name = <<"m">>
          /\ fmt.customers.rows[2].email = <<"b">>
          /\ LET out == cmd_import(store, fmt)
             IN  /\ out.result = "ok"
                 /\ Cardinality(out.db.customers) = Cardinality(store.customers) + 1
                 /\ \E c \in out.db.customers : c.email = <<"b">>
                 /\ \E c \in out.db.customers : c.email = <<"a">> /\ c.full_name = <<"n">>

---------------------------------------------------------------------------
(* Claims about the pipeline, checked under SpecPipeline.                  *)

\* C7: a stage that finds one of its input files missing has written
\* nothing: from every reachable state, a clean, a format or an import that
\* ends with FileNotFoundError leaves the cleaned files, the formatted files
\* and the store as they were.
C7_MissingFileWritesNothing ==
    /\ LET r == cmd_clean(raw, cleaned)
       IN  r.result = "FileNotFoundError" => r.files = cleaned
    /\ LET r == cmd_format(cleaned, formatted)
       IN  r.result = "FileNotFoundError" => r.files = formatted
    /\ LET r == cmd_import(store, formatted)
       IN  r.result = "FileNotFoundError" => r.db = store

NormEmail(t) == lower(strip(t))

\* the emails a raw customers file names, trimmed and lowercased
RawEmails == {NormEmail(raw.customers.rows[i].email) : i \in DOMAIN raw.customers.rows} \ {<<>>}

\* the first row of the raw customers file with the email e
FirstRawIndex(e) ==
    CHOOSE i \in DOMAIN raw.customers.rows :
       /\ NormEmail(raw.customers.rows[i].email) = e
       /\ \A h \in 1..(i - 1) : NormEmail(raw.customers.rows[h].email) # e

\* C8: the cleaned customers file holds no row with an empty email and, for
\* each distinct non-empty trimmed and lowercased email of the raw file,
\* exactly the first raw row with it, in input order; an import of the result
\* into an empty store leaves exactly one Customer per such email, and so does
\* every import the pipeline runs.
C8_CleanKeepsFirstPerEmail ==
    /\ cleaned.customers.exists =>
          LET out == cleaned.customers.rows
          IN  /\ Len(out) = Cardinality(RawEmails)
              /\ \A j \in DOMAIN out :
                    /\ out[j].email \in RawEmails
                    /\ out[j].full_name =
                          strip(raw.customers.rows[FirstRawIndex(out[j].email)].full_name)
              /\ \A j, k \in DOMAIN out :
                    j < k => FirstRawIndex(out[j].email) < FirstRawIndex(out[k].email)
    /\ formatted.customers.exists =>
          LET db == cmd_import(EmptyStore, formatted).db
          IN  /\ {c.email : c \in db.customers} = RawEmails
              /\ Cardinality(db.customers) = Cardinality(RawEmails)
              /\ \A c \in db.customers :
                    c.full_name = strip(raw.customers.rows[FirstRawIndex(c.email)].full_name)
              /\ last.cmd = "import" => store.customers = db.customers

\* the raw file names a twice, in two spellings and under two names, and has
\* a row without email: one row is cleaned, the first, and one Customer stored
C8_Witness ==
    /\ last = Ran("import", "ok")
    /\ Len(raw.customers.rows) = 3
    /\ raw.customers.rows[1] = RawCustomer(<<"m", " ">>, <<" ", "A">>)
    /\ raw.customers.rows[2] = RawCustomer(<<"n">>, <<>>)
    /\ raw.customers.rows[3] = RawCustomer(<<"n">>, <<"a">>)
    /\ Len(cleaned.customers.rows) = 1
    /\ cleaned.customers.rows[1].email = <<"a">>
    /\ cleaned.customers.rows[1].full_name = <<"m">>
    /\ Cardinality(store.customers) = 1
    /\ \E c \in store.customers : c.email = <<"a">> /\ c.full_name = <<"m">>

\* an order row that names a customer, a product and a date that parses
OrderShouldBeKept(r) ==
    /\ NormEmail(r.customer_email) # <<>>
    /\ strip(r.product_sku) # <<>>
    /\ clean_date(read_cell(r.order_date)) # <<>>

\* C9: the cleaned orders file holds, in input order, exactly the raw order
\* rows whose trimmed and lowercased email, trimmed SKU and parsed date are
\* all non-empty, a row that repeats another included.
C9_CleanDropsIncompleteOrders ==
    cleaned.orders.exists =>
       LET out == cleaned.orders.rows
           expected == SelectSeq(raw.orders.rows, OrderShouldBeKept)
       IN  /\ Len(out) = Len(expected)
           /\ \A j \in DOMAIN out :
                 j \in DOMAIN expected =>
                    /\ out[j].customer_email = NormEmail(expected[j].customer_email)
                    /\ out[j].product_sku = strip(expected[j].product_sku)
                    /\ out[j].order_date = clean_date(read_cell(expected[j].order_date))

\* C10: every order of the cleaned orders file and every stored Order has a
\* quantity of at least 1.
C10_QuantityAtLeastOne ==
    /\ cleaned.orders.exists =>
          \A j \in DOMAIN cleaned.orders.rows : cleaned.orders.rows[j].quantity >= 1
    /\ \A o \in BagToSet(store.orders) : o.quantity >= 1

\* a decimal numeral in cents, a half cent and more going to the higher cent;
\* 0 for a text that is no decimal numeral
HalfUpCents(t) ==
    LET p == Split(t, ".")
        frac == IF Len(p) = 2 THEN p[2] ELSE <<>>
        cents == 100 * ToNat(p[1]) + ToNat(SubSeq(frac \o <<"0", "0">>, 1, 2))
    IN  IF ~IsNumeral(t) THEN 0
        ELSE IF Len(frac) > 2 /\ DigitVal(frac[3]) >= 5 THEN cents + 1
        ELSE cents

\* C11: every price of the formatted products file is the cleaned price of
\* the same row with two fractional digits, rounded half-up, and 0.00 where
\* the cleaned price is no decimal numeral.
C11_FormattedPriceHalfUp ==
    formatted.products.exists =>
       \A i \in DOMAIN formatted.products.rows :
          i \in DOMAIN cleaned.products.rows =>
             formatted.products.rows[i].price = HalfUpCents(cleaned.products.rows[i].price)

---------------------------------------------------------------------------
(* Claims about export, checked under SpecExport.                          *)

\* C12: an export, of either family and from any store, leaves the six
\* tables as they were: every step that is an export has the same customers,
\* products, orders, authors, books and reviews after it as before it.
C12_ExportLeavesStore ==
    [][last'.cmd = "export" => store' = store /\ library' = library]_vars

\* an export has just written the orders of a store that holds some
C12_Witness ==
    /\ last = Ran("export", "ok")
    /\ store.orders # EmptyBag
    /\ exports.orders.exists
    /\ BagToSet(exports.orders.rows) = {order_export_row(o) : o \in BagToSet(store.orders)}
    /\ exports.customers.rows = store.customers

---------------------------------------------------------------------------
(* Claims about reset, checked under SpecReset.                            *)

\* no review without its book, no book without its author
NoDanglingReference ==
    /\ \A r \in library.reviews : \E b \in library.books : b.id = r.book_id
    /\ \A b \in library.books : \E a \in library.authors : a.id = b.author_id

\* the statements of a reset come in the order reviews, books, authors, and
\* each leaves the tables of the later statements as they were
ResetInOrder ==
    /\ procs' = Resetting("books") =>
          /\ procs = NoProcs
          /\ library' = [library EXCEPT !.reviews = {}]
    /\ procs' = Resetting("authors") =>
          /\ procs = Resetting("books")
          /\ library' = [library EXCEPT !.books = {}]
    /\ procs # NoProcs /\ procs' = NoProcs =>
          /\ procs = Resetting("authors")
          /\ library' = EmptyLibrary

\* C13: a reset deletes the reviews, then the books, then the authors; in
\* every state of a reset, the states between two statements included, no
\* review references a missing book and no book a missing author; and when
\* the reset has ended the three tables are empty.
C13_ResetChildrenFirst ==
    /\ [](/\ NoDanglingReference
          /\ procs = Resetting("books") => library.reviews = {}
          /\ procs = Resetting("authors") => library.reviews = {} /\ library.books = {}
          /\ last = Ran("reset", "ok") /\ procs = NoProcs => library = EmptyLibrary)
    /\ [][ResetInOrder]_vars

\* between the first and the second statement of a reset of a loaded store:
\* the reviews are gone, the books and their authors are still there
C13_Witness ==
    /\ procs = Resetting("books")
    /\ last = Ran("import", "ok")
    /\ library.reviews = {}
    /\ Cardinality(library.books) = 2
    /\ library.authors # {}

---------------------------------------------------------------------------
(* Claims about two imports at once, checked under SpecImports.            *)

\* C14: however the statements of two family-A imports interleave, the store
\* never holds two Customers with one email or two Products with one SKU, and
\* no run ends with a key conflict (IntegrityError): a run ends with "ok" or
\* with the exception of a missing file.
C14_ConcurrentImportsKeepKeysUnique ==
    /\ \A c, d \in store.customers : c.email = d.email => c = d
    /\ \A p, q \in store.products : p.sku = q.sku => p = q
    /\ \A i \in Runs : procs[i].result \in {"none", "ok", "FileNotFoundError"}

\* run 2 has run its insert with customer a, under the name m, on its list:
\* its existence check had not found a.  Run 1 had inserted a, under the name
\* n, before that insert, and the store holds that one customer a.
C14_Witness ==
    /\ procs[2].pc = "products" /\ procs[2].result = "none"
    /\ \E j \in DOMAIN procs[2].to_create :
          /\ procs[2].to_create[j].email = <<"a">>
          /\ procs[2].to_create[j].full_name = <<"m">>
    /\ procs[1].pc # "customers" /\ procs[1].pc # "insert_customers"
    /\ procs[1].fmt.customers.rows =
          <<[full_name |-> <<"n">>, email |-> <<"a">>, phone |-> <<"7">>]>>
    /\ {c \in store.customers : c.email = <<"a">>} =
          {[full_name |-> <<"n">>, email |-> <<"a">>, phone |-> <<"7">>]}
====
